---- MODULE Spec2Model ----
(***************************************************************************)
(* Model of quran/serializers.py: the stored tables the serializers read   *)
(* and write, the create handlers, and the derived fields (breaker         *)
(* numbering, ayah/word timestamps, bismillah resolution).                 *)
(***************************************************************************)
EXTENDS Integers, Sequences, FiniteSets, TLC

VARIABLES
    surahs,      \* Surah table: surahs[id] = [number]
    ayahs,       \* Ayah table: ayahs[id] = [surah, number, is_bismillah, bismillah_text, sajdah]
    words,       \* Word table: words[id] = [ayah, text]
    breakers,    \* AyahBreaker rows [ayah, type]
    recitations, \* Recitation table: recitations[id] = [mushaf, reciter_account]
    recSurahs,   \* RecitationSurah rows of the recitation under study: surah ids
    timestamps,  \* RecitationSurahTimestamp rows [word, start_time, end_time]
    pending,     \* AyahAddSerializer.create requests between their read and their insert
    translations, \* Translation table: translations[id] = [language]
    resp         \* what the latest serializer call returned or raised

vars == <<surahs, ayahs, words, breakers, recitations, recSurahs, timestamps, pending,
          translations, resp>>

db == <<surahs, ayahs, words, breakers, recitations, recSurahs, timestamps, translations>>

----------------------------------------------------------------------------
\* Bounds of the model.

MaxAyahs == 2
MaxBreakers == 3
MaxRecitations == 1
MaxTimestamps == 2
MaxPresentedBreakers == 1
MaxViewedTimestamps == 1

\* The surahs a request may name (by primary key, standing for the uuid; the
\* table never holds more) and the surah numbers a request may give.
SurahUuids == {1, 2}
SurahNumbers == {1, 2}
BreakerTypes == {"juz", "hizb"}

\* The requests to AyahAddSerializer.create that may be in flight at once.
Requests == {1, 2}

\* Python's None for a nullable text column.
NULL == "NULL"

\* The mushaf and user accounts that exist, and the uuids a request may carry.
MushafUuids == {"m1"}
UserUuids == {"u1"}
MushafInputs == {"m1", "m2"}
UserInputs == {"u1", "u2"}

\* The ayah texts a request may carry (strings as sequences of characters).
AyahTexts == {<<"a">>, <<"a", " ", "b">>}

----------------------------------------------------------------------------
\* Responses.

NoResp == [op |-> "none", arg |-> 0, raised |-> "", none |-> TRUE, out |-> <<>>]

Returned(op, arg, out) == [op |-> op, arg |-> arg, raised |-> "", none |-> FALSE, out |-> out]

ReturnedNone(op, arg) == [op |-> op, arg |-> arg, raised |-> "", none |-> TRUE, out |-> <<>>]

Raised(op, arg, exc) == [op |-> op, arg |-> arg, raised |-> exc, none |-> TRUE, out |-> <<>>]

----------------------------------------------------------------------------
\* Generic helpers on tables.

Ids(table) == 1..Len(table)

Range(seq) == {seq[i] : i \in DOMAIN seq}

\* The permutations of 1..n, as sequences.
Perms(n) == {p \in [1..n -> 1..n] : \A i, j \in 1..n : i # j => p[i] # p[j]}

\* QuerySet.order_by: every order in which the rows may come back, given for
\* each pair of rows whether the sort key lets the first precede the second
\* (leq[i][j]). Rows with equal keys come in any order: the query names no
\* further key.
OrderedBy(rows, leq) ==
    {[i \in 1..Len(rows) |-> rows[p[i]]] : p \in
        {q \in Perms(Len(rows)) :
            \A i, j \in 1..Len(rows) : i < j => leq[q[i]][q[j]]}}

\* A row added after the first k rows of a table.
InsertRow(rows, row, k) ==
    SubSeq(rows, 1, k) \o <<row>> \o SubSeq(rows, k + 1, Len(rows))

----------------------------------------------------------------------------
\* SurahSerializer.create

SurahCreate(mushaf_uuid, number) ==
    /\ Len(surahs) + 1 \in SurahUuids
    /\ IF mushaf_uuid \notin MushafUuids
       THEN /\ resp' = Raised("surah_create", 0, "Mushaf.DoesNotExist")
            /\ UNCHANGED surahs
       ELSE /\ surahs' = Append(surahs, [number |-> number])
            /\ resp' = NoResp
    /\ UNCHANGED <<ayahs, words, breakers, recitations, recSurahs, timestamps, pending, translations>>

----------------------------------------------------------------------------
\* AyahAddSerializer.create

\* text.split(" ")
RECURSIVE SplitOnSpace(_, _)
SplitOnSpace(text, cur) ==
    IF text = <<>> THEN <<cur>>
    ELSE IF Head(text) = " " THEN <<cur>> \o SplitOnSpace(Tail(text), <<>>)
    ELSE SplitOnSpace(Tail(text), Append(cur, Head(text)))

Split(text) == SplitOnSpace(text, <<>>)

AyahsOfSurah(s) == {a \in Ids(ayahs) : ayahs[a].surah = s}

\* Ayah.objects.filter(surah=surah).order_by('-number').first(), then the increment
NextNumber(s) ==
    IF AyahsOfSurah(s) = {} THEN 1
    ELSE (CHOOSE n \in {ayahs[a].number : a \in AyahsOfSurah(s)} :
            \A a \in AyahsOfSurah(s) : ayahs[a].number <= n) + 1

\* A request to AyahAddSerializer.create: where it is, the surah it named,
\* the number it computed and the ayah it inserted.
Idle == [pc |-> "idle", surah |-> 0, next |-> 0, ayah |-> 0]

InFlight == {q \in Requests : pending[q].pc = "read"}

\* Lines 411-419: the surah is looked up and the latest ayah number is read.
AyahAddRead(r, surah_uuid) ==
    /\ pending[r].pc = "idle"
    /\ Len(ayahs) + Cardinality(InFlight) < MaxAyahs
    /\ IF surah_uuid \notin Ids(surahs)
       THEN /\ resp' = Raised("ayah_add", surah_uuid, "Surah.DoesNotExist")
            /\ UNCHANGED pending
       ELSE /\ pending' = [pending EXCEPT ![r] =
                   [pc |-> "read", surah |-> surah_uuid,
                    next |-> NextNumber(surah_uuid), ayah |-> 0]]
            /\ resp' = NoResp
    /\ UNCHANGED <<surahs, ayahs, words, breakers, recitations, recSurahs, timestamps, translations>>

\* Lines 421-430: the ayah is inserted with the number that was read.
AyahAddInsert(r, is_bismillah, bismillah_text, sajdah) ==
    /\ pending[r].pc = "read"
    /\ ayahs' = Append(ayahs, [surah |-> pending[r].surah, number |-> pending[r].next,
                               is_bismillah |-> is_bismillah,
                               bismillah_text |-> bismillah_text,
                               sajdah |-> sajdah])
    /\ pending' = [pending EXCEPT ![r] = [@ EXCEPT !.pc = "inserted", !.ayah = Len(ayahs) + 1]]
    /\ resp' = NoResp
    /\ UNCHANGED <<surahs, words, breakers, recitations, recSurahs, timestamps, translations>>

\* Lines 433-441: one Word row for each piece of the text.
WordsOf(ayah_id, text) ==
    IF text = <<>> THEN <<>>
    ELSE [i \in 1..Len(Split(text)) |-> [ayah |-> ayah_id, text |-> Split(text)[i]]]

\* Lines 432-447: the words of the inserted ayah are inserted (the rows of
\* the ayah and of its words are written by separate statements, outside any
\* transaction) and the ayah is returned.
AyahAddWords(r, text) ==
    /\ pending[r].pc = "inserted"
    /\ words' = words \o WordsOf(pending[r].ayah, text)
    /\ pending' = [pending EXCEPT ![r] = Idle]
    /\ resp' = NoResp
    /\ UNCHANGED <<surahs, ayahs, breakers, recitations, recSurahs, timestamps, translations>>

----------------------------------------------------------------------------
\* AyahBreakerSerializer.create

\* The breaker rows are a bag: the place of a row in the table carries no
\* meaning (every query orders the rows itself), and the table is kept sorted
\* by (ayah, type) so that equal bags are equal states.
BreakerLeq(a, b) ==
    \/ a.ayah < b.ayah
    \/ a.ayah = b.ayah /\ (a.type = b.type \/ a.type = "hizb")

BreakerCreate(ayah_id, type) ==
    /\ Len(breakers) < MaxBreakers
    /\ ayah_id \in Ids(ayahs)
    /\ LET row == [ayah |-> ayah_id, type |-> type]
       IN  breakers' = InsertRow(breakers, row,
               Cardinality({i \in DOMAIN breakers : ~BreakerLeq(row, breakers[i])}))
    /\ resp' = NoResp
    /\ UNCHANGED <<surahs, ayahs, words, recitations, recSurahs, timestamps, pending, translations>>

----------------------------------------------------------------------------
\* AyahSerializer.get_breakers

SurahNumberOf(ayah_id) == surahs[ayahs[ayah_id].surah].number

\* The filter of lines 165-171.
BreakerAtOrBefore(b, target) ==
    \/ SurahNumberOf(b.ayah) < SurahNumberOf(target)
    \/ /\ ayahs[b.ayah].surah = ayahs[target].surah
       /\ ayahs[b.ayah].number <= ayahs[target].number

\* order_by('ayah__surah__number', 'ayah__number')
BreakerOrder(a, b) ==
    \/ SurahNumberOf(a.ayah) < SurahNumberOf(b.ayah)
    \/ /\ SurahNumberOf(a.ayah) = SurahNumberOf(b.ayah)
       /\ ayahs[a.ayah].number <= ayahs[b.ayah].number

\* The orders in which the query of lines 165-172 may yield its rows.
AllBreakersOf(rows, target) ==
    LET Keep(b) == BreakerAtOrBefore(b, target)
        kept == SelectSeq(rows, Keep)
    IN  OrderedBy(kept, [i \in DOMAIN kept |-> [j \in DOMAIN kept |->
                            BreakerOrder(kept[i], kept[j])]])

AllBreakers(target) == AllBreakersOf(breakers, target)

\* Lines 180-183 with the first count of a type set to 0 instead of 1.
CountBreakerFromZero(breaker_counts, type) ==
    IF type \notin DOMAIN breaker_counts
    THEN breaker_counts @@ (type :> 0)
    ELSE [breaker_counts EXCEPT ![type] = @ + 1]

\* Lines 180-183.
CountBreaker(breaker_counts, type) ==
    IF type \notin DOMAIN breaker_counts
    THEN breaker_counts @@ (type :> 1)
    ELSE [breaker_counts EXCEPT ![type] = @ + 1]

\* Lines 186-194.
StoreBreaker(ayah_breakers, breaker, breaker_counts) ==
    LET ab == IF breaker.ayah \notin DOMAIN ayah_breakers
              THEN ayah_breakers @@ (breaker.ayah :> <<>>)
              ELSE ayah_breakers
    IN  IF \E i \in DOMAIN ab[breaker.ayah] : ab[breaker.ayah][i].name = breaker.type
        THEN ab
        ELSE [ab EXCEPT ![breaker.ayah] =
                Append(@, [name |-> breaker.type, number |-> breaker_counts[breaker.type]])]

\* The loop of lines 178-194 over the rows from index i on.
RECURSIVE BreakerLoop(_, _, _, _)
BreakerLoop(all_breakers, i, breaker_counts, ayah_breakers) ==
    IF i > Len(all_breakers) THEN ayah_breakers
    ELSE LET counts == CountBreaker(breaker_counts, all_breakers[i].type)
         IN  BreakerLoop(all_breakers, i + 1, counts,
                         StoreBreaker(ayah_breakers, all_breakers[i], counts))

EmptyDict == [x \in {} |-> 0]

\* get_breakers(instance), for one order of the query's rows.
get_breakers(instance, all_breakers) ==
    IF \A i \in DOMAIN breakers : breakers[i].ayah # instance
    THEN ReturnedNone("get_breakers", instance)
    ELSE LET ayah_breakers == BreakerLoop(all_breakers, 1, EmptyDict, EmptyDict)
         IN  IF instance \in DOMAIN ayah_breakers
             THEN Returned("get_breakers", instance, ayah_breakers[instance])
             ELSE ReturnedNone("get_breakers", instance)

GetBreakers(instance) ==
    /\ instance \in Ids(ayahs)
    /\ \E all_breakers \in AllBreakers(instance) :
           resp' = get_breakers(instance, all_breakers)
    /\ UNCHANGED <<surahs, ayahs, words, breakers, recitations, recSurahs, timestamps, pending, translations>>

----------------------------------------------------------------------------
\* Times of day (datetime.time) and their rendering.

Time(h, m, sec, us) == [hour |-> h, minute |-> m, second |-> sec, microsecond |-> us]

\* No end_time (None).
NoTime == [hour |-> -1, minute |-> -1, second |-> -1, microsecond |-> -1]

\* The order of a TIME column.
TimeLeq(a, b) ==
    \/ a.hour < b.hour
    \/ a.hour = b.hour /\ a.minute < b.minute
    \/ a.hour = b.hour /\ a.minute = b.minute /\ a.second < b.second
    \/ /\ a.hour = b.hour /\ a.minute = b.minute /\ a.second = b.second
       /\ a.microsecond <= b.microsecond

DigitChars == <<"0", "1", "2", "3", "4", "5", "6", "7", "8", "9">>

Pow10(k) == IF k = 0 THEN 1 ELSE IF k = 1 THEN 10 ELSE IF k = 2 THEN 100
            ELSE IF k = 3 THEN 1000 ELSE IF k = 4 THEN 10000 ELSE 100000

\* n in decimal, zero-padded to width digits (%H, %M, %S: 2; %f: 6).
Padded(n, width) == [i \in 1..width |-> DigitChars[((n \div Pow10(width - i)) % 10) + 1]]

\* t.strftime('%H:%M:%S.%f')
strftime(t) ==
    Padded(t.hour, 2) \o <<":">> \o Padded(t.minute, 2) \o <<":">>
        \o Padded(t.second, 2) \o <<".">> \o Padded(t.microsecond, 6)

\* The time rounded to the nearest millisecond, carrying into the seconds.
FormatTimeRounded(t) ==
    LET ms == (t.microsecond + 500) \div 1000
    IN  Padded(t.hour, 2) \o <<":">> \o Padded(t.minute, 2) \o <<":">>
            \o Padded(t.second + (ms \div 1000), 2) \o <<".">> \o Padded(ms % 1000, 3)

\* t.strftime('%H:%M:%S.%f')[:-3]
FormatTime(t) == SubSeq(strftime(t), 1, Len(strftime(t)) - 3)

----------------------------------------------------------------------------
\* RecitationSerializer.create

\* create with the row written before the reciter is looked up.
RecitationCreateThenLookup(mushaf_uuid, reciter_account_uuid) ==
    /\ Len(recitations) < MaxRecitations
    /\ IF mushaf_uuid \notin MushafUuids
       THEN /\ resp' = Raised("recitation_create", 0, "Mushaf.DoesNotExist")
            /\ UNCHANGED recitations
       ELSE /\ recitations' = Append(recitations,
                   [mushaf |-> mushaf_uuid, reciter_account |-> reciter_account_uuid])
            /\ resp' = IF reciter_account_uuid \notin UserUuids
                       THEN Raised("recitation_create", 0, "ValidationError:reciter_account_uuid")
                       ELSE Returned("recitation_create", Len(recitations) + 1, <<>>)
    /\ UNCHANGED <<surahs, ayahs, words, breakers, recSurahs, timestamps, pending, translations>>

RecitationCreate(mushaf_uuid, reciter_account_uuid) ==
    /\ Len(recitations) < MaxRecitations
    /\ IF mushaf_uuid \notin MushafUuids
       THEN /\ resp' = Raised("recitation_create", 0, "Mushaf.DoesNotExist")
            /\ UNCHANGED recitations
       ELSE IF reciter_account_uuid \notin UserUuids
       THEN /\ resp' = Raised("recitation_create", 0, "ValidationError:reciter_account_uuid")
            /\ UNCHANGED recitations
       ELSE /\ recitations' = Append(recitations,
                   [mushaf |-> mushaf_uuid, reciter_account |-> reciter_account_uuid])
            /\ resp' = Returned("recitation_create", Len(recitations) + 1, <<>>)
    /\ UNCHANGED <<surahs, ayahs, words, breakers, recSurahs, timestamps, pending, translations>>

----------------------------------------------------------------------------
\* The rows the upload endpoint writes: a surah linked to a recitation, and
\* the alignment records of a linked surah.

RecitationSurahCreate(recitation, surah) ==
    /\ recitation \in Ids(recitations)
    /\ surah \in Ids(surahs)
    /\ [recitation |-> recitation, surah |-> surah] \notin recSurahs
    /\ recSurahs' = recSurahs \cup {[recitation |-> recitation, surah |-> surah]}
    /\ resp' = NoResp
    /\ UNCHANGED <<surahs, ayahs, words, breakers, recitations, timestamps, pending, translations>>

\* The alignment rows are a bag, kept sorted by (recitation, word, start, end).
TimestampLeq(a, b) ==
    \/ a.recitation < b.recitation
    \/ a.recitation = b.recitation /\ a.word < b.word
    \/ /\ a.recitation = b.recitation /\ a.word = b.word
       /\ (a.start_time # b.start_time => TimeLeq(a.start_time, b.start_time))
       /\ (a.start_time = b.start_time => TimeLeq(a.end_time, b.end_time))

\* word 0 stands for a record without a word (word_id None).
TimestampCreate(recitation, word, start_time, end_time) ==
    /\ Len(timestamps) < MaxTimestamps
    /\ \E l \in recSurahs : l.recitation = recitation
    /\ word \in Ids(words) \cup {0}
    /\ LET row == [recitation |-> recitation, word |-> word,
                   start_time |-> start_time, end_time |-> end_time]
       IN  timestamps' = InsertRow(timestamps, row,
               Cardinality({i \in DOMAIN timestamps : ~TimestampLeq(row, timestamps[i])}))
    /\ resp' = NoResp
    /\ UNCHANGED <<surahs, ayahs, words, breakers, recitations, recSurahs, pending, translations>>

----------------------------------------------------------------------------
\* RecitationSerializer.get_ayahs_timestamps and get_words_timestamps

\* The rows of the recitation with no order_by: in any order.
TimestampsOfUnordered(obj) ==
    LET Keep(t) == t.recitation = obj
        kept == SelectSeq(timestamps, Keep)
    IN  OrderedBy(kept, [i \in DOMAIN kept |-> [j \in DOMAIN kept |-> TRUE]])

\* RecitationSurahTimestamp.objects.filter(recitation_surah__recitation=obj)
\*     .order_by('start_time'): the orders the rows may come back in.
TimestampsOf(obj) ==
    LET Keep(t) == t.recitation = obj
        kept == SelectSeq(timestamps, Keep)
    IN  OrderedBy(kept, [i \in DOMAIN kept |-> [j \in DOMAIN kept |->
                            TimeLeq(kept[i].start_time, kept[j].start_time)]])

\* Lines 551-552: the ayahs of the surahs linked to the recitation.
LinkedAyahs(obj) ==
    {a \in Ids(ayahs) : \E l \in recSurahs : l.recitation = obj /\ l.surah = ayahs[a].surah}

WordIdsOf(a) == {w \in Ids(words) : words[w].ayah = a}

\* ayah.words.values("id").first(): the word of the ayah with the lowest id.
FirstWordId(a) == CHOOSE w \in WordIdsOf(a) : \A v \in WordIdsOf(a) : w <= v

\* The loop of lines 563-566 over the records from index i on.
RECURSIVE AyahStartTimes(_, _, _)
AyahStartTimes(stream, i, first_words) ==
    IF i > Len(stream) THEN <<>>
    ELSE LET start_time == FormatTime(stream[i].start_time)
         IN  IF stream[i].word \in first_words
             THEN <<start_time>> \o AyahStartTimes(stream, i + 1, first_words)
             ELSE AyahStartTimes(stream, i + 1, first_words)

\* get_ayahs_timestamps(obj), for one order of the query's rows. Line 556
\* subscripts the first word of every linked ayah: None for an ayah without
\* words, which raises TypeError.
get_ayahs_timestamps(obj, stream) ==
    IF \E a \in LinkedAyahs(obj) : WordIdsOf(a) = {}
    THEN Raised("get_ayahs_timestamps", obj, "TypeError")
    ELSE IF stream = <<>>
    THEN Returned("get_ayahs_timestamps", obj, <<>>)
    ELSE Returned("get_ayahs_timestamps", obj,
             AyahStartTimes(stream, 2, {FirstWordId(a) : a \in LinkedAyahs(obj)}))

GetAyahsTimestamps(obj) ==
    /\ obj \in Ids(recitations)
    /\ \E stream \in TimestampsOf(obj) : resp' = get_ayahs_timestamps(obj, stream)
    /\ UNCHANGED <<surahs, ayahs, words, breakers, recitations, recSurahs, timestamps, pending, translations>>

\* Lines 578-586: one entry of the output.
WordTimestamp(timestamp) ==
    [start |-> FormatTime(timestamp.start_time),
     end |-> IF timestamp.end_time # NoTime THEN FormatTime(timestamp.end_time) ELSE <<>>,
     end_is_none |-> timestamp.end_time = NoTime,
     word_uuid |-> timestamp.word]

get_words_timestamps(obj, stream) ==
    Returned("get_words_timestamps", obj, [i \in DOMAIN stream |-> WordTimestamp(stream[i])])

GetWordsTimestamps(obj) ==
    /\ obj \in Ids(recitations)
    /\ \E stream \in TimestampsOf(obj) : resp' = get_words_timestamps(obj, stream)
    /\ UNCHANGED <<surahs, ayahs, words, breakers, recitations, recSurahs, timestamps, pending, translations>>

----------------------------------------------------------------------------
\* SurahSerializer.get_bismillah

\* instance.ayahs.order_by('number').first(): 0 stands for None. Ayahs that
\* share the lowest number may each come first.
FirstAyahsByHighestNumber(s) ==
    IF AyahsOfSurah(s) = {} THEN {0}
    ELSE {a \in AyahsOfSurah(s) : \A b \in AyahsOfSurah(s) : ayahs[b].number <= ayahs[a].number}

FirstAyahs(s) ==
    IF AyahsOfSurah(s) = {} THEN {0}
    ELSE {a \in AyahsOfSurah(s) : \A b \in AyahsOfSurah(s) : ayahs[a].number <= ayahs[b].number}

SurahSerializer_get_bismillah(first_ayah) ==
    [is_ayah |-> IF first_ayah # 0 THEN ayahs[first_ayah].is_bismillah ELSE FALSE,
     text |-> IF first_ayah # 0 /\ ayahs[first_ayah].bismillah_text # NULL
              THEN ayahs[first_ayah].bismillah_text ELSE ""]

GetSurahBismillah(instance) ==
    /\ instance \in Ids(surahs)
    /\ \E first_ayah \in FirstAyahs(instance) :
           resp' = Returned("surah_get_bismillah", instance,
                            SurahSerializer_get_bismillah(first_ayah))
    /\ UNCHANGED <<surahs, ayahs, words, breakers, recitations, recSurahs, timestamps, pending, translations>>

----------------------------------------------------------------------------
\* AyahSerializer.to_representation

\* The value of a field that may be None.
PyNone == [none |-> TRUE]

Some(v) == [none |-> FALSE, val |-> v]

\* dict.pop(key, None)
Pop(dict, key) == [k \in (DOMAIN dict) \ {key} |-> dict[k]]

\* dict[key] = value
Put(dict, key, value) == (key :> value) @@ dict

AyahSerializer_get_bismillah(instance) ==
    [is_ayah |-> ayahs[instance].is_bismillah,
     text |-> IF ayahs[instance].bismillah_text = NULL THEN ""
              ELSE ayahs[instance].bismillah_text]

\* SurahSerializer(surah).data: the fields derived from the stored rows (the
\* plain columns names, period, search_terms and the nested mushaf are left out).
SurahData(surah, first_ayah) ==
    [uuid |-> surah,
     number |-> surahs[surah].number,
     number_of_ayahs |-> Cardinality(AyahsOfSurah(surah)),
     bismillah |-> SurahSerializer_get_bismillah(first_ayah)]

\* get_surah with its test reversed.
AyahSerializer_get_surah_reversed(instance, first_ayah) ==
    IF ayahs[instance].number # 1
    THEN Some(SurahData(ayahs[instance].surah, first_ayah))
    ELSE PyNone

AyahSerializer_get_surah(instance, first_ayah) ==
    IF ayahs[instance].number = 1
    THEN Some(SurahData(ayahs[instance].surah, first_ayah))
    ELSE PyNone

\* ' '.join(word.text for word in words), '' without words (text_format unset)
RECURSIVE JoinWords(_)
JoinWords(ws) ==
    IF ws = <<>> THEN <<>>
    ELSE IF Len(ws) = 1 THEN ws[1].text
    ELSE ws[1].text \o <<" ">> \o JoinWords(Tail(ws))

AyahSerializer_get_text(instance) ==
    LET OfAyah(w) == w.ayah = instance
    IN  JoinWords(SelectSeq(words, OfAyah))

\* super().to_representation(instance): the declared fields (length, a column
\* computed outside this file, is left out).
BaseRepresentation(instance, first_ayah, all_breakers) ==
    [uuid |-> instance,
     number |-> ayahs[instance].number,
     sajdah |-> IF ayahs[instance].sajdah = NULL THEN PyNone ELSE Some(ayahs[instance].sajdah),
     text |-> AyahSerializer_get_text(instance),
     breakers |-> LET r == get_breakers(instance, all_breakers)
                  IN  IF r.none THEN PyNone ELSE Some(r.out),
     bismillah |-> Some(AyahSerializer_get_bismillah(instance)),
     surah |-> AyahSerializer_get_surah(instance, first_ayah)]

NullableFields == <<"breakers", "sajdah", "bismillah", "surah">>

\* Lines 216-222, after the field of one round of the loop was handled.
MoveBismillah(representation, number) ==
    IF number = 1 /\ "bismillah" \in DOMAIN representation /\ "surah" \in DOMAIN representation
    THEN IF ~representation["surah"].none
         THEN Pop([representation EXCEPT !["surah"] =
                      Some(Put(@.val, "bismillah", representation["bismillah"].val))],
                  "bismillah")
         ELSE representation
    ELSE representation

\* The loop of lines 212-222 from field i on.
RECURSIVE RemoveNullFields(_, _, _)
RemoveNullFields(representation, number, i) ==
    IF i > Len(NullableFields) THEN representation
    ELSE LET field == NullableFields[i]
             popped == IF field \in DOMAIN representation /\ representation[field].none
                       THEN Pop(representation, field)
                       ELSE representation
         IN  RemoveNullFields(MoveBismillah(popped, number), number, i + 1)

to_representation(instance, first_ayah, all_breakers) ==
    RemoveNullFields(BaseRepresentation(instance, first_ayah, all_breakers),
                     ayahs[instance].number, 1)

AyahToRepresentation(instance) ==
    /\ instance \in Ids(ayahs)
    /\ \E first_ayah \in FirstAyahs(ayahs[instance].surah),
          all_breakers \in AllBreakers(instance) :
           resp' = Returned("to_representation", instance,
                            to_representation(instance, first_ayah, all_breakers))
    /\ UNCHANGED <<surahs, ayahs, words, breakers, recitations, recSurahs, timestamps, pending, translations>>

----------------------------------------------------------------------------
\* Breaker numbering: the claims.

\* Corpus order: by surah number, then by ayah number.
AyahBefore(a, b) ==
    \/ SurahNumberOf(a) < SurahNumberOf(b)
    \/ SurahNumberOf(a) = SurahNumberOf(b) /\ ayahs[a].number < ayahs[b].number

AyahAtOrBefore(a, b) == ~AyahBefore(b, a)

ImmediatelyFollows(b, a) ==
    /\ AyahBefore(a, b)
    /\ ~\E c \in Ids(ayahs) : AyahBefore(a, c) /\ AyahBefore(c, b)

\* Corpus order is a total order: no two ayahs share a place in it.
CorpusOrdered ==
    \A a, b \in Ids(ayahs) : a # b => (AyahBefore(a, b) \/ AyahBefore(b, a))

Carries(a, t) == \E i \in DOMAIN breakers : breakers[i].ayah = a /\ breakers[i].type = t

\* The ayahs at or before the target that carry at least one breaker of type t.
AyahsCarrying(t, target) ==
    {a \in Ids(ayahs) : AyahAtOrBefore(a, target) /\ Carries(a, t)}

Reports(r, t) == \E i \in DOMAIN r.out : r.out[i].name = t

\* The number a response gives for type t; 0 stands for "no number given".
NumberOf(r, t) ==
    IF Reports(r, t) THEN r.out[CHOOSE i \in DOMAIN r.out : r.out[i].name = t].number ELSE 0

\* The breaker rows with the repeated (ayah, type) rows dropped.
RECURSIVE Dedup(_)
Dedup(rows) ==
    IF rows = <<>> THEN <<>>
    ELSE IF Head(rows) \in Range(Tail(rows)) THEN Dedup(Tail(rows))
    ELSE <<Head(rows)>> \o Dedup(Tail(rows))

\* C1: for every target ayah and every breaker type, the number get_breakers
\* reports for the type is the number of ayahs at or before the target that
\* carry a breaker of that type, also for types the target does not carry.
C1_CountsAyahsAtOrBefore ==
    (resp.op = "get_breakers" /\ CorpusOrdered) =>
        \A t \in BreakerTypes :
            AyahsCarrying(t, resp.arg) # {} =>
                /\ Reports(resp, t)
                /\ NumberOf(resp, t) = Cardinality(AyahsCarrying(t, resp.arg))

\* C2: several breakers of one type on one ayah raise the type's counter by
\* one: what get_breakers reports is what it reports once the repeated rows
\* are dropped.
C2_SameTypeCountsOnce ==
    (resp.op = "get_breakers" /\ CorpusOrdered) =>
        \E all_breakers \in AllBreakersOf(Dedup(breakers), resp.arg) :
            resp = get_breakers(resp.arg, all_breakers)

\* C3: when B immediately follows A in corpus order, each counter reported
\* for B is the counter reported for A, plus 1 for the types with a breaker
\* at B and plus 0 for the others.
C3_StepByOneAtBreaker ==
    [][(/\ resp.op = "get_breakers"
        /\ resp'.op = "get_breakers"
        /\ db' = db
        /\ CorpusOrdered
        /\ ImmediatelyFollows(resp'.arg, resp.arg))
       => \A t \in BreakerTypes :
            NumberOf(resp', t) = NumberOf(resp, t) + (IF Carries(resp'.arg, t) THEN 1 ELSE 0)]_vars

\* C4: an ayah without breakers gets no counters (None); a type without an
\* occurrence at or before the target is not reported; every number
\* reported is at least 1.
C4_NullNeverZero ==
    resp.op = "get_breakers" =>
        /\ (\A t \in BreakerTypes : ~Carries(resp.arg, t)) => (resp.none /\ resp.out = <<>>)
        /\ \A t \in BreakerTypes : AyahsCarrying(t, resp.arg) = {} => ~Reports(resp, t)
        /\ \A i \in DOMAIN resp.out : resp.out[i].number >= 1

\* C4 witness: an ayah without breakers was asked for, after an ayah with breakers.
C4_Witness ==
    /\ resp.op = "get_breakers"
    /\ resp.none
    /\ \E t \in BreakerTypes : AyahsCarrying(t, resp.arg) # {}

----------------------------------------------------------------------------
\* Timestamp derivation: the claims.

\* w is the first word of some ayah of a surah linked to the recitation.
IsFirstWord(obj, w) ==
    \E a \in LinkedAyahs(obj) : WordIdsOf(a) # {} /\ w = FirstWordId(a)

\* The formatted start times of the records after the first one whose word
\* is a first word, in stream order.
ExpectedStartTimes(obj, stream) ==
    LET Emitted(i) == i >= 2 /\ IsFirstWord(obj, stream[i].word)
        positions == SelectSeq([i \in DOMAIN stream |-> i], Emitted)
    IN  [k \in DOMAIN positions |-> FormatTime(stream[positions[k]].start_time)]

\* C5: get_ayahs_timestamps returns exactly the formatted start times of the
\* records of the start_time-ordered stream that come after the first record
\* and whose word is the first word of an ayah of a linked surah, in stream
\* order, one entry per such record.
C5_AyahStartTimesOfStream ==
    resp.op = "get_ayahs_timestamps" =>
        /\ resp.raised = ""
        /\ \E stream \in TimestampsOf(resp.arg) :
               resp.out = ExpectedStartTimes(resp.arg, stream)

\* C6: on an alignment stream of 0 or 1 records get_ayahs_timestamps returns
\* the empty sequence and does not raise, whatever is linked to the recitation.
C6_ShortStreamEmpty ==
    (/\ resp.op = "get_ayahs_timestamps"
     /\ \A stream \in TimestampsOf(resp.arg) : Len(stream) <= 1)
    => (resp.raised = "" /\ ~resp.none /\ resp.out = <<>>)

Derivations == {"get_breakers", "get_words_timestamps", "get_ayahs_timestamps"}

\* C10: the derivations are read-only and idempotent: a derivation leaves
\* the stored records as they are, and invoked again on the same target over
\* unchanged records it returns what it returned before.
C10_DerivationsIdempotent ==
    [][/\ resp'.op \in Derivations => db' = db
       /\ (/\ resp.op \in Derivations
           /\ resp'.op = resp.op
           /\ resp'.arg = resp.arg
           /\ db' = db) => resp' = resp]_vars

----------------------------------------------------------------------------
\* The corpus with its breakers, its requests served one at a time.

InitEmpty ==
    /\ surahs = <<>>
    /\ ayahs = <<>>
    /\ words = <<>>
    /\ breakers = <<>>
    /\ recitations = <<>>
    /\ recSurahs = {}
    /\ timestamps = <<>>
    /\ pending = [r \in Requests |-> Idle]
    /\ translations = <<>>
    /\ resp = NoResp

NextBreakers ==
    \/ \E m \in MushafInputs, n \in SurahNumbers : SurahCreate(m, n)
    \/ \E s \in SurahUuids : AyahAddRead(1, s)
    \/ AyahAddInsert(1, FALSE, NULL, NULL)
    \/ AyahAddWords(1, <<"a">>)
    \/ \E a \in 1..MaxAyahs, t \in BreakerTypes : BreakerCreate(a, t)
    \/ \E a \in 1..MaxAyahs : GetBreakers(a)

SpecBreakers == InitEmpty /\ [][NextBreakers]_vars

----------------------------------------------------------------------------
\* Recitations with their alignment records.

AlignmentTimes == {Time(0, 0, 0, 0), Time(0, 0, 0, 500000)}

NextRecitation ==
    \/ SurahCreate("m1", Len(surahs) + 1)
    \/ \E s \in SurahUuids : AyahAddRead(1, s)
    \/ AyahAddInsert(1, FALSE, NULL, NULL)
    \/ \E text \in AyahTexts : AyahAddWords(1, text)
    \/ \E m \in MushafInputs, u \in UserInputs : RecitationCreate(m, u)
    \/ \E obj \in 1..MaxRecitations, s \in SurahUuids : RecitationSurahCreate(obj, s)
    \/ \E obj \in 1..MaxRecitations, w \in Ids(words) \cup {0}, t \in AlignmentTimes :
           TimestampCreate(obj, w, t, NoTime)
    \/ \E obj \in 1..MaxRecitations : GetAyahsTimestamps(obj)
    \/ \E obj \in 1..MaxRecitations : GetWordsTimestamps(obj)

SpecRecitation == InitEmpty /\ [][NextRecitation]_vars

----------------------------------------------------------------------------
\* Bismillah resolution, presentation and creation: the claims.

\* The ayahs of a surah with the lowest number.
LowestNumbered(s) ==
    {a \in Ids(ayahs) : /\ ayahs[a].surah = s
                        /\ \A b \in Ids(ayahs) : ayahs[b].surah = s =>
                               ayahs[a].number <= ayahs[b].number}

\* C7 as claimed: get_bismillah returns the first ayah's text with its
\* is_ayah flag when the first ayah carries bismillah text, and
\* {is_ayah: false, text: ""} in every other case.
C7_BismillahOrDefault ==
    resp.op = "surah_get_bismillah" =>
        \/ \E a \in LowestNumbered(resp.arg) :
               /\ ayahs[a].bismillah_text # NULL
               /\ resp.out = [is_ayah |-> ayahs[a].is_bismillah,
                              text |-> ayahs[a].bismillah_text]
        \/ /\ \/ LowestNumbered(resp.arg) = {}
              \/ \E a \in LowestNumbered(resp.arg) : ayahs[a].bismillah_text = NULL
           /\ resp.out = [is_ayah |-> FALSE, text |-> ""]

\* C7 amended: get_bismillah returns the is_bismillah flag of the first
\* (lowest-numbered) ayah together with its bismillah text, "" standing for
\* a null text, and {is_ayah: false, text: ""} when the surah has no ayahs;
\* the text is never null.
C7_BismillahOfFirstAyah ==
    resp.op = "surah_get_bismillah" =>
        /\ resp.out.text # NULL
        /\ \/ LowestNumbered(resp.arg) = {} /\ resp.out = [is_ayah |-> FALSE, text |-> ""]
           \/ \E a \in LowestNumbered(resp.arg) :
                  /\ resp.out.is_ayah = ayahs[a].is_bismillah
                  /\ resp.out.text = IF ayahs[a].bismillah_text = NULL THEN ""
                                     ELSE ayahs[a].bismillah_text

\* C7 witness: the first ayah counts the bismillah as an ayah and has no
\* bismillah text, while a later ayah has other values.
C7_Witness ==
    /\ resp.op = "surah_get_bismillah"
    /\ resp.out = [is_ayah |-> TRUE, text |-> ""]
    /\ \E a \in Ids(ayahs) : ayahs[a].surah = resp.arg /\ a \notin LowestNumbered(resp.arg)

\* C8: the representation of ayah number 1 has the bismillah object inside
\* its surah object and no top-level bismillah key; the representation of
\* any other ayah has the bismillah key at the top level, with the value of
\* get_bismillah; nothing is raised.
C8_BismillahRelocated ==
    resp.op = "to_representation" =>
        /\ resp.raised = ""
        /\ IF ayahs[resp.arg].number = 1
           THEN /\ "bismillah" \notin DOMAIN resp.out
                /\ "surah" \in DOMAIN resp.out
                /\ ~resp.out["surah"].none
                /\ "bismillah" \in DOMAIN resp.out["surah"].val
                /\ resp.out["surah"].val["bismillah"] = AyahSerializer_get_bismillah(resp.arg)
           ELSE /\ "bismillah" \in DOMAIN resp.out
                /\ resp.out["bismillah"] = Some(AyahSerializer_get_bismillah(resp.arg))

\* C8 witness: ayah number 1 was presented, with a bismillah that differs
\* from the one SurahSerializer computes for its surah.
C8_Witness ==
    /\ resp.op = "to_representation"
    /\ ayahs[resp.arg].number = 1
    /\ "bismillah" \notin DOMAIN resp.out
    /\ \E first_ayah \in FirstAyahs(ayahs[resp.arg].surah) :
           resp.out["surah"].val["bismillah"] # SurahSerializer_get_bismillah(first_ayah)

\* C9 as claimed: create with a reciter_account_uuid that resolves to no user
\* fails with a validation error keyed by reciter_account_uuid and writes
\* nothing.
C9_UnknownReciterRejected ==
    [][\A m \in MushafInputs, u \in UserInputs :
          (RecitationCreate(m, u) /\ u \notin UserUuids) =>
              /\ resp'.raised = "ValidationError:reciter_account_uuid"
              /\ db' = db]_vars

\* C9 amended: create with a reciter_account_uuid that resolves to no user
\* writes nothing and fails: with a validation error keyed by
\* reciter_account_uuid when the mushaf_uuid resolves to a mushaf, and with
\* Mushaf.DoesNotExist, raised by the earlier lookup, when it does not.
C9_UnknownReciterNoWrite ==
    [][\A m \in MushafInputs, u \in UserInputs :
          (RecitationCreate(m, u) /\ u \notin UserUuids) =>
              /\ resp'.raised = IF m \in MushafUuids
                                THEN "ValidationError:reciter_account_uuid"
                                ELSE "Mushaf.DoesNotExist"
              /\ db' = db]_vars

\* C9 witness: a create was rejected for its reciter.
C9_Witness ==
    /\ resp.op = "recitation_create"
    /\ resp.raised = "ValidationError:reciter_account_uuid"
    /\ recitations = <<>>

----------------------------------------------------------------------------
\* The corpus as the create handlers build it, with ayahs added by
\* concurrent requests, and the bismillah of its surahs.

BismillahTexts == {NULL, "bismillah"}

NextCorpus ==
    \/ \E m \in MushafInputs : SurahCreate(m, Len(surahs) + 1)
    \/ \E r \in Requests, s \in SurahUuids : AyahAddRead(r, s)
    \/ \E r \in Requests, b \in BOOLEAN, t \in BismillahTexts : AyahAddInsert(r, b, t, NULL)
    \/ \E r \in Requests : AyahAddWords(r, <<"a">>)
    \/ \E m \in MushafInputs, u \in UserInputs : RecitationCreate(m, u)
    \/ \E s \in SurahUuids : GetSurahBismillah(s)

SpecCorpus == InitEmpty /\ [][NextCorpus]_vars

----------------------------------------------------------------------------
\* The presentation of ayahs added by concurrent requests, with their breakers.

\* The is_bismillah, bismillah_text and sajdah a request may carry.
AyahPayloads == {<<FALSE, NULL, NULL>>, <<TRUE, "bismillah", "vajib">>}

NextPresentation ==
    \/ SurahCreate("m1", Len(surahs) + 1)
    \/ \E r \in Requests, s \in SurahUuids : AyahAddRead(r, s)
    \/ \E r \in Requests, p \in AyahPayloads : AyahAddInsert(r, p[1], p[2], p[3])
    \/ \E r \in Requests : AyahAddWords(r, <<"a", " ", "b">>)
    \/ \E a \in 1..MaxAyahs : Len(breakers) < MaxPresentedBreakers /\ BreakerCreate(a, "juz")
    \/ \E a \in 1..MaxAyahs : AyahToRepresentation(a)

SpecPresentation == InitEmpty /\ [][NextPresentation]_vars

----------------------------------------------------------------------------
\* Ayah numbering under concurrent creates: the claim.

\* C14: whatever way the reads and inserts of concurrent
\* AyahAddSerializer.create calls interleave, the ayahs of a surah carry
\* pairwise distinct numbers, and these are exactly 1..n for its n ayahs.
C14_AyahNumbersDistinct ==
    \A s \in Ids(surahs) :
        /\ \A a, b \in AyahsOfSurah(s) : a # b => ayahs[a].number # ayahs[b].number
        /\ {ayahs[a].number : a \in AyahsOfSurah(s)} = 1..Cardinality(AyahsOfSurah(s))

----------------------------------------------------------------------------
\* The alignment stream of one recitation and its projections: the claims.

\* The alignment records of a recitation, as stored.
RecordsOf(obj) ==
    LET Keep(t) == t.recitation = obj
    IN  SelectSeq(timestamps, Keep)

\* entry is what a pure projection makes of row: the row's word (0: null),
\* its start time, and its end time or null.
ProjectionOf(entry, row) ==
    /\ entry.word_uuid = row.word
    /\ entry.start = FormatTime(row.start_time)
    /\ entry.end_is_none = (row.end_time = NoTime)
    /\ row.end_time # NoTime => entry.end = FormatTime(row.end_time)

\* C11: get_words_timestamps returns one entry per alignment record of the
\* recitation and no other entry, records without a word included (with a
\* null word_uuid); the entries come in ascending start_time order of their
\* records; an entry's end is null exactly when its record has no end_time.
C11_WordsProjection ==
    resp.op = "get_words_timestamps" =>
        LET rows == RecordsOf(resp.arg)
        IN  /\ resp.raised = ""
            /\ ~resp.none
            /\ Len(resp.out) = Len(rows)
            /\ \E p \in Perms(Len(rows)) :
                   /\ \A i \in DOMAIN rows : ProjectionOf(resp.out[i], rows[p[i]])
                   /\ \A i, j \in DOMAIN rows :
                          i < j => TimeLeq(rows[p[i]].start_time, rows[p[j]].start_time)

\* C11 witness: a stream of two records with different start times, stored
\* latest first, one without a word, one with and one without an end_time.
C11_Witness ==
    /\ resp.op = "get_words_timestamps"
    /\ Len(resp.out) = 2
    /\ Len(RecordsOf(resp.arg)) = 2
    /\ ~TimeLeq(RecordsOf(resp.arg)[1].start_time, RecordsOf(resp.arg)[2].start_time)
    /\ \E i, j \in DOMAIN resp.out :
           /\ resp.out[i].word_uuid = 0
           /\ resp.out[i].end_is_none
           /\ ~resp.out[j].end_is_none

\* The number a string of decimal digits writes; -1 if it is not one.
RECURSIVE DecimalValue(_)
DecimalValue(str) ==
    IF str = <<>> THEN 0
    ELSE LET last == str[Len(str)]
             front == DecimalValue(SubSeq(str, 1, Len(str) - 1))
         IN  IF front = -1 \/ last \notin Range(DigitChars) THEN -1
             ELSE 10 * front + (CHOOSE d \in 0..9 : DigitChars[d + 1] = last)

\* str is t written as HH:MM:SS.mmm, mmm being the whole milliseconds of t.
IsMillisecondRendering(str, t) ==
    /\ Len(str) = 12
    /\ str[3] = ":" /\ str[6] = ":" /\ str[9] = "."
    /\ DecimalValue(SubSeq(str, 1, 2)) = t.hour
    /\ DecimalValue(SubSeq(str, 4, 5)) = t.minute
    /\ DecimalValue(SubSeq(str, 7, 8)) = t.second
    /\ DecimalValue(SubSeq(str, 10, 12)) = t.microsecond \div 1000

\* C12: every start and end that get_words_timestamps emits, and every start
\* time that get_ayahs_timestamps emits, is the time of an alignment record of
\* the recitation written as HH:MM:SS.mmm: two digits each for hour, minute
\* and second, three for the milliseconds, which are the stored microseconds
\* divided by 1000 and truncated, with no carry into the seconds.
C12_MillisecondsTruncated ==
    LET rows == RecordsOf(resp.arg)
    IN  /\ resp.op = "get_words_timestamps" =>
               \A i \in DOMAIN resp.out : \E k \in DOMAIN rows :
                   /\ resp.out[i].word_uuid = rows[k].word
                   /\ IsMillisecondRendering(resp.out[i].start, rows[k].start_time)
                   /\ resp.out[i].end_is_none = (rows[k].end_time = NoTime)
                   /\ ~resp.out[i].end_is_none =>
                          IsMillisecondRendering(resp.out[i].end, rows[k].end_time)
        /\ resp.op = "get_ayahs_timestamps" =>
               \A i \in DOMAIN resp.out : \E k \in DOMAIN rows :
                   IsMillisecondRendering(resp.out[i], rows[k].start_time)

\* C12 witness: get_ayahs_timestamps has emitted the start of a record stored
\* with 999500 microseconds, and the stream holds a record with 999999.
C12_Witness ==
    /\ resp.op = "get_ayahs_timestamps"
    /\ resp.out = <<<<"2", "3", ":", "5", "9", ":", "5", "9", ".", "9", "9", "9">>>>
    /\ \E k \in DOMAIN RecordsOf(resp.arg) :
           /\ RecordsOf(resp.arg)[k].start_time.microsecond = 999999
           /\ RecordsOf(resp.arg)[k].end_time # NoTime

----------------------------------------------------------------------------
\* One recitation of one surah, with alignment records of any precision.

RenderedTimes == {Time(0, 0, 0, 999999), Time(1, 2, 3, 4567), Time(23, 59, 59, 999500)}

EndTimes == {NoTime, Time(23, 59, 59, 999999)}

NextAlignment ==
    \/ surahs = <<>> /\ SurahCreate("m1", 1)
    \/ AyahAddRead(1, 1)
    \/ AyahAddInsert(1, FALSE, NULL, NULL)
    \/ AyahAddWords(1, <<"a">>)
    \/ recitations = <<>> /\ RecitationCreate("m1", "u1")
    \/ RecitationSurahCreate(1, 1)
    \/ \E w \in Ids(words) \cup {0}, t \in RenderedTimes, e \in EndTimes :
           TimestampCreate(1, w, t, e)
    \/ GetAyahsTimestamps(1)
    \/ GetWordsTimestamps(1)

SpecAlignment == InitEmpty /\ [][NextAlignment]_vars

----------------------------------------------------------------------------
\* TranslationSerializer.get_language_is_rtl and
\* TranslationListSerializer.get_language_is_rtl

\* core.rtl_languages.RTL_LANGUAGE_CODES: the static set of right-to-left
\* language codes (strings as sequences of characters).
RTL_LANGUAGE_CODES == {<<"a", "r">>, <<"f", "a">>, <<"h", "e">>, <<"u", "r">>}

Uppercase == <<"A", "B", "C", "D", "E", "F", "G", "H", "I", "J", "K", "L", "M", "N", "O", "P", "Q", "R", "S", "T", "U", "V", "W", "X", "Y", "Z">>

Lowercase == <<"a", "b", "c", "d", "e", "f", "g", "h", "i", "j", "k", "l", "m", "n", "o", "p", "q", "r", "s", "t", "u", "v", "w", "x", "y", "z">>

Whitespace == {" ", "\t", "\n"}

\* str.lower() of one character.
LowerOf(c) ==
    IF \E k \in DOMAIN Uppercase : Uppercase[k] = c
    THEN Lowercase[CHOOSE k \in DOMAIN Uppercase : Uppercase[k] = c]
    ELSE c

\* str.lower()
lower(str) == [i \in DOMAIN str |-> LowerOf(str[i])]

\* str.strip(): without its leading and trailing whitespace.
strip(str) ==
    LET kept == {i \in DOMAIN str : str[i] \notin Whitespace}
    IN  IF kept = {} THEN <<>>
        ELSE SubSeq(str, CHOOSE i \in kept : \A j \in kept : i <= j,
                         CHOOSE i \in kept : \A j \in kept : j <= i)

\* str.split('-')[0]: what comes before the first '-', all of it if there is none.
SplitOnDashFirst(str) ==
    LET dashes == {i \in DOMAIN str : str[i] = "-"}
    IN  IF dashes = {} THEN str
        ELSE SubSeq(str, 1, (CHOOSE i \in dashes : \A j \in dashes : i <= j) - 1)

\* obj.language or ''
LanguageOrEmpty(language) == IF language = PyNone THEN <<>> ELSE language.val

\* get_language_is_rtl deciding on the full code only.
get_language_is_rtl_full_code(language) ==
    LET code == lower(strip(LanguageOrEmpty(language)))
    IN  code \in RTL_LANGUAGE_CODES

TranslationSerializer_get_language_is_rtl(language) ==
    LET code == lower(strip(LanguageOrEmpty(language)))
        base == SplitOnDashFirst(code)
    IN  code \in RTL_LANGUAGE_CODES \/ base \in RTL_LANGUAGE_CODES

TranslationListSerializer_get_language_is_rtl(language) ==
    LET code == lower(strip(LanguageOrEmpty(language)))
        base == SplitOnDashFirst(code)
    IN  code \in RTL_LANGUAGE_CODES \/ base \in RTL_LANGUAGE_CODES

TranslationGetLanguageIsRtl(obj) ==
    /\ obj \in Ids(translations)
    /\ resp' = Returned("TranslationSerializer.get_language_is_rtl", obj,
                        TranslationSerializer_get_language_is_rtl(translations[obj].language))
    /\ UNCHANGED <<surahs, ayahs, words, breakers, recitations, recSurahs, timestamps, pending, translations>>

TranslationListGetLanguageIsRtl(obj) ==
    /\ obj \in Ids(translations)
    /\ resp' = Returned("TranslationListSerializer.get_language_is_rtl", obj,
                        TranslationListSerializer_get_language_is_rtl(translations[obj].language))
    /\ UNCHANGED <<surahs, ayahs, words, breakers, recitations, recSurahs, timestamps, pending, translations>>

----------------------------------------------------------------------------
\* Right-to-left inference: the claim.

\* n is str without its surrounding whitespace.
IsStripped(n, str) ==
    \E i \in 1..(Len(str) + 1), j \in 0..Len(str) :
        /\ n = SubSeq(str, i, j)
        /\ \A k \in DOMAIN str : (k < i \/ k > j) => str[k] \in Whitespace
        /\ n # <<>> => (n[1] \notin Whitespace /\ n[Len(n)] \notin Whitespace)

\* b is the base subtag of n: the part before its first '-'.
IsBaseSubtag(b, n) ==
    \E k \in 0..Len(n) :
        /\ b = SubSeq(n, 1, k)
        /\ \A i \in 1..k : n[i] # "-"
        /\ k = Len(n) \/ n[k + 1] = "-"

\* The stripped, lowercased code is a right-to-left code, or its base subtag is.
IsRtlCode(str) ==
    \E i \in 1..(Len(str) + 1), j \in 0..Len(str) :
        /\ IsStripped(SubSeq(str, i, j), str)
        /\ LET n == [p \in DOMAIN SubSeq(str, i, j) |-> LowerOf(SubSeq(str, i, j)[p])]
           IN  \/ n \in RTL_LANGUAGE_CODES
               \/ \E k \in 0..Len(n) :
                      IsBaseSubtag(SubSeq(n, 1, k), n) /\ SubSeq(n, 1, k) \in RTL_LANGUAGE_CODES

RtlOps == {"TranslationSerializer.get_language_is_rtl",
           "TranslationListSerializer.get_language_is_rtl"}

\* C13: get_language_is_rtl of either serializer returns true exactly when
\* the language code, stripped of surrounding whitespace and lowercased, is
\* a right-to-left code or its part before the first '-' is one; a null or
\* empty code gives false, "ar" and "ar-SA" give true, "en" gives false.
C13_RtlByCodeOrBase ==
    resp.op \in RtlOps =>
        LET language == translations[resp.arg].language
        IN  /\ ~resp.none
            /\ language = PyNone => resp.out = FALSE
            /\ language # PyNone =>
                   /\ resp.out = IsRtlCode(language.val)
                   /\ language.val = <<>> => resp.out = FALSE
                   /\ language.val = <<"a", "r">> => resp.out = TRUE
                   /\ language.val = <<"a", "r", "-", "S", "A">> => resp.out = TRUE
                   /\ language.val = <<"e", "n">> => resp.out = FALSE

\* C13 witness: TranslationListSerializer has answered true for "ar-SA".
C13_Witness ==
    /\ resp.op = "TranslationListSerializer.get_language_is_rtl"
    /\ translations[resp.arg].language = Some(<<"a", "r", "-", "S", "A">>)
    /\ resp.out = TRUE

----------------------------------------------------------------------------
\* Translations of any stored language code, and their right-to-left flag.

MaxTranslations == 2

LanguageCodes ==
    {<<>>,
     <<"a", "r">>,
     <<"a", "r", "-", "S", "A">>,
     <<"e", "n">>,
     <<" ", "A", "R", " ">>,
     <<"e", "n", "-", "a", "r">>,
     <<"-", "a", "r">>,
     <<"f", "a", "-", "I", "R">>,
     <<" ", " ">>,
     <<"a", "r", "-">>,
     <<"E", "n", "-", "U", "S">>}

Languages == {PyNone} \cup {Some(code) : code \in LanguageCodes}

TranslationTables ==
    UNION {[1..n -> {[language |-> l] : l \in Languages}] : n \in 0..MaxTranslations}

InitTranslations ==
    /\ surahs = <<>>
    /\ ayahs = <<>>
    /\ words = <<>>
    /\ breakers = <<>>
    /\ recitations = <<>>
    /\ recSurahs = {}
    /\ timestamps = <<>>
    /\ pending = [r \in Requests |-> Idle]
    /\ translations \in TranslationTables
    /\ resp = NoResp

NextTranslations ==
    \/ \E obj \in 1..MaxTranslations : TranslationGetLanguageIsRtl(obj)
    \/ \E obj \in 1..MaxTranslations : TranslationListGetLanguageIsRtl(obj)

SpecTranslations == InitTranslations /\ [][NextTranslations]_vars

----------------------------------------------------------------------------
\* RecitationSerializer.to_representation

\* self.context: the action of the view ("None": no view, or a view without
\* an action) and the request (absent, or with its words_timestamps query
\* parameter, itself absent or a string).
NoRequest == [present |-> FALSE, has_param |-> FALSE, param |-> <<>>]

RequestWithout == [present |-> TRUE, has_param |-> FALSE, param |-> <<>>]

RequestWith(param) == [present |-> TRUE, has_param |-> TRUE, param |-> param]

\* request.query_params.get('words_timestamps', 'true')
WordsTimestampsParam(request) ==
    IF request.has_param THEN request.param ELSE <<"t", "r", "u", "e">>

\* super().to_representation(instance): the fields of Meta.fields that are
\* not write-only (the plain columns are left out).
RecitationBaseRepresentation(instance, words_timestamps, ayahs_timestamps) ==
    [uuid |-> instance,
     get_mushaf_uuid |-> recitations[instance].mushaf,
     words_timestamps |-> words_timestamps,
     ayahs_timestamps |-> ayahs_timestamps]

\* Lines 518-524.
RecitationUuids(representation, instance) ==
    LET echoed == Put(Pop(representation, "mushaf_uuid"), "reciter_account_uuid",
                      recitations[instance].reciter_account)
        renamed == Put(Pop(echoed, "get_mushaf_uuid"), "mushaf_uuid", echoed["get_mushaf_uuid"])
    IN  Pop(renamed, "reciter_account")

\* Lines 538-540: the surahs linked to the recitation.
RecitationSurahsData(instance) == {l.surah : l \in {k \in recSurahs : k.recitation = instance}}

\* to_representation dropping words_timestamps on 'false' whatever the action.
RecitationSerializer_to_representation_any_action(instance, action, request, words_timestamps, ayahs_timestamps, words_timestamps_again) ==
    LET representation == RecitationUuids(
            RecitationBaseRepresentation(instance, words_timestamps, ayahs_timestamps), instance)
        dynamic == IF /\ request.present
                      /\ lower(WordsTimestampsParam(request)) = <<"f", "a", "l", "s", "e">>
                   THEN Pop(representation, "words_timestamps")
                   ELSE Put(representation, "words_timestamps", words_timestamps_again)
        listed == IF action = "list"
                  THEN Pop(Pop(dynamic, "words_timestamps"), "ayahs_timestamps")
                  ELSE dynamic
    IN  Put(listed, "recitation_surahs", RecitationSurahsData(instance))

\* to_representation(instance) in a context, given what the method fields
\* returned to super().to_representation and what get_words_timestamps
\* returns to line 532.
RecitationSerializer_to_representation(instance, action, request, words_timestamps, ayahs_timestamps, words_timestamps_again) ==
    LET representation == RecitationUuids(
            RecitationBaseRepresentation(instance, words_timestamps, ayahs_timestamps), instance)
        dynamic == IF /\ request.present
                      /\ lower(WordsTimestampsParam(request)) = <<"f", "a", "l", "s", "e">>
                      /\ action = "retrieve"
                   THEN Pop(representation, "words_timestamps")
                   ELSE Put(representation, "words_timestamps", words_timestamps_again)
        listed == IF action = "list"
                  THEN Pop(Pop(dynamic, "words_timestamps"), "ayahs_timestamps")
                  ELSE dynamic
    IN  Put(listed, "recitation_surahs", RecitationSurahsData(instance))

\* The call: the method fields are computed first, each by its own query,
\* and an exception of get_ayahs_timestamps leaves to_representation.
RecitationToRepresentation(instance, action, request) ==
    /\ instance \in Ids(recitations)
    /\ \E first \in TimestampsOf(instance), stream \in TimestampsOf(instance),
          again \in TimestampsOf(instance) :
           LET call == [instance |-> instance, action |-> action, request |-> request]
               ayahs_timestamps == get_ayahs_timestamps(instance, stream)
           IN  resp' = IF ayahs_timestamps.raised # ""
                       THEN Raised("recitation_to_representation", call, ayahs_timestamps.raised)
                       ELSE Returned("recitation_to_representation", call,
                                RecitationSerializer_to_representation(
                                    instance, action, request,
                                    get_words_timestamps(instance, first).out,
                                    ayahs_timestamps.out,
                                    get_words_timestamps(instance, again).out))
    /\ UNCHANGED <<surahs, ayahs, words, breakers, recitations, recSurahs, timestamps, pending, translations>>

----------------------------------------------------------------------------
\* The timestamp fields of a presented recitation: the claim.

\* The parameter reads 'false' in some letter case.
IsFalseAnyCase(param) ==
    /\ Len(param) = 5
    /\ param[1] \in {"f", "F"} /\ param[2] \in {"a", "A"} /\ param[3] \in {"l", "L"}
    /\ param[4] \in {"s", "S"} /\ param[5] \in {"e", "E"}

\* C15: in what to_representation returns, for action 'list' neither
\* words_timestamps nor ayahs_timestamps is present; for action 'retrieve'
\* with a request whose words_timestamps parameter reads 'false' in any
\* letter case words_timestamps is absent and ayahs_timestamps present; in
\* every other case both are present and words_timestamps is what
\* get_words_timestamps returns for the instance.
C15_TimestampFieldsByContext ==
    (resp.op = "recitation_to_representation" /\ resp.raised = "") =>
        LET action == resp.arg.action
            request == resp.arg.request
            HasWords == "words_timestamps" \in DOMAIN resp.out
            HasAyahs == "ayahs_timestamps" \in DOMAIN resp.out
            SaysFalse == /\ request.present /\ request.has_param
                         /\ IsFalseAnyCase(request.param)
        IN  /\ action = "list" => (~HasWords /\ ~HasAyahs)
            /\ (action = "retrieve" /\ SaysFalse) => (~HasWords /\ HasAyahs)
            /\ (action # "list" /\ ~(action = "retrieve" /\ SaysFalse)) =>
                   /\ HasWords
                   /\ HasAyahs
                   /\ \E stream \in TimestampsOf(resp.arg.instance) :
                          resp.out["words_timestamps"] =
                              get_words_timestamps(resp.arg.instance, stream).out

\* C15 witness: an action other than 'list' and 'retrieve' with the
\* parameter at 'False' has presented a recitation that has alignment
\* records, with both timestamp fields.
C15_Witness ==
    /\ resp.op = "recitation_to_representation"
    /\ resp.raised = ""
    /\ resp.arg.action = "update"
    /\ resp.arg.request = RequestWith(<<"F", "a", "l", "s", "e">>)
    /\ {"words_timestamps", "ayahs_timestamps"} \subseteq DOMAIN resp.out
    /\ Len(resp.out["words_timestamps"]) = 1

----------------------------------------------------------------------------
\* One recitation of one surah, presented in every context.

ViewActions == {"None", "list", "retrieve", "update"}

ViewRequests ==
    {NoRequest, RequestWithout,
     RequestWith(<<"f", "a", "l", "s", "e">>), RequestWith(<<"F", "a", "l", "s", "e">>),
     RequestWith(<<"t", "r", "u", "e">>)}

NextRecitationView ==
    \/ surahs = <<>> /\ SurahCreate("m1", 1)
    \/ AyahAddRead(1, 1)
    \/ AyahAddInsert(1, FALSE, NULL, NULL)
    \/ AyahAddWords(1, <<"a">>)
    \/ recitations = <<>> /\ RecitationCreate("m1", "u1")
    \/ RecitationSurahCreate(1, 1)
    \/ \E w \in {0, 1}, t \in AlignmentTimes :
           Len(timestamps) < MaxViewedTimestamps /\ TimestampCreate(1, w, t, NoTime)
    \/ \E action \in ViewActions, request \in ViewRequests :
           RecitationToRepresentation(1, action, request)

SpecRecitationView == InitEmpty /\ [][NextRecitationView]_vars

====
